---- MODULE Spec2Model ----
(***************************************************************************)
(* State-machine model of circuit::drgporep::drgporep, the assembly of the *)
(* DRG proof-of-replication circuit for one challenge                      *)
(* (src/src/circuit/drgporep.rs).                                          *)
(*                                                                         *)
(* One behaviour is one call of drgporep: Init fixes the arguments and the *)
(* kind of constraint system the call is made on, and each action is one   *)
(* statement group of the function body, in program order.  A `?` on a     *)
(* failed sub-call and a panic both end the call.                          *)
(*                                                                         *)
(* The scalar field E::Fr is modelled by Z_FieldP for arithmetic; the bit  *)
(* widths of the real field (NUM_BITS, CAPACITY) and the literals of the   *)
(* source (32, 256) are kept, because the public-input layout depends on   *)
(* them.                                                                   *)
(***************************************************************************)
EXTENDS Integers, Sequences, FiniteSets, TLC

VARIABLES
    inp,            \* the arguments of the call (lines 44-58)
    mode,           \* the kind of ConstraintSystem `cs` is (CS type parameter)
    cs,             \* the constraint system under construction
    pc,             \* position in the function body
    i,              \* loop variable of `for i in 0..replica_parents.len()`
    result,         \* "running", or how the call ended
    prover_id_bits, \* local of line 73
    parents_bits,   \* local of line 112
    key,            \* local of line 133
    decoded,        \* local of line 141
    expected,       \* local of line 148
    trace,          \* the statement groups executed so far, in order
    mutated         \* TRUE in a re-assembly with the replica leaf changed

vars == <<inp, mode, cs, pc, i, result, prover_id_bits, parents_bits, key,
          decoded, expected, trace, mutated>>

-----------------------------------------------------------------------------
(* Bounds of the model *)

MaxDepth == 2       \* longest Merkle path drawn
MaxParents == 2     \* most parents / parent paths / degree drawn

(* Constants of the program and of the curve *)

FieldP == 7         \* modulus of the model field standing for E::Fr
ValueBits == 3      \* bits needed for a value below FieldP
FrNumBits == 255    \* Fr::NUM_BITS of BLS12-381
FrCapacity == 254   \* Fr::CAPACITY of BLS12-381
PadWidth == 256     \* `while v.len() < 256`
ProverIdLen == 32   \* `assert_eq!(prover_id.len(), 32)`
DEFAULT_ROUNDS == 1 \* sloth::DEFAULT_ROUNDS
TestLambda == 32    \* tests: `let lambda = 32`
TestParents == 6    \* tests: `let m = 6`
TestDepth == 4      \* tests: `let n = 12`, a 12-leaf tree has depth 4

Fr == 0..(FieldP - 1)
NoVal == -1                     \* Option::None of a field value or of a bit
OptFr == Fr \cup {NoVal}

Witness == "witness"            \* cs evaluates assignments (TestConstraintSystem, prover)
ShapeOnly == "shape"            \* cs ignores assignments (parameter generation)
Modes == {Witness, ShapeOnly}

Lambdas == {16, 32}

Ok == "Ok"
AssignmentMissing == "Err(AssignmentMissing)"
PanicPathLen == "panic: assert_eq!(data_node_path.len(), replica_node_path.len())"
PanicIdLen == "panic: assert_eq!(prover_id.len(), 32)"
PanicIndex == "panic: index out of bounds (replica_parents_paths[i])"
PanicKdfLen == "panic: kdf: invalid input length"
Panics == {PanicPathLen, PanicIdLen, PanicIndex, PanicKdfLen}

-----------------------------------------------------------------------------
(* Option values of the argument types *)

NoneBytes == [some |-> FALSE, bytes |-> <<>>]
SomeBytes(b) == [some |-> TRUE, bytes |-> b]

NoneElem == [some |-> FALSE, val |-> NoVal, right |-> FALSE]
SomeElem(v, r) == [some |-> TRUE, val |-> v, right |-> r]

Min(a, b) == IF a < b THEN a ELSE b

CeilDiv(a, b) == (a + b - 1) \div b

IsPrefix(s, t) == Len(s) <= Len(t) /\ SubSeq(t, 1, Len(s)) = s

-----------------------------------------------------------------------------
(* Boolean wires: Boolean::Is(AllocatedBit) and Boolean::Constant(false) *)

AllocatedBit(v) == [const |-> FALSE, v |-> v]
ConstantFalse == [const |-> TRUE, v |-> 0]

(* bit j (from 0) of a value of the model field, little endian *)
BitOf(v, j) == IF j >= ValueBits THEN 0 ELSE (v \div (2 ^ j)) % 2

(* bit j (from 0) of a byte string, byte by byte, least significant first *)
BytesBit(bytes, j) ==
    IF j \div 8 >= Len(bytes) THEN 0
    ELSE (bytes[(j \div 8) + 1] \div (2 ^ (j % 8))) % 2

(* the integer a bit vector stands for, little endian, reduced mod FieldP *)
RECURSIVE BitsValue(_, _, _)
BitsValue(bits, lo, hi) ==
    IF lo > hi THEN 0
    ELSE IF lo = hi THEN (bits[lo].v * (2 ^ ((lo - 1) % ValueBits))) % FieldP
    ELSE LET mid == (lo + hi) \div 2
         IN (BitsValue(bits, lo, mid) + BitsValue(bits, mid + 1, hi)) % FieldP

HasValues(bits) == \A j \in 1..Len(bits) : bits[j].v # NoVal

-----------------------------------------------------------------------------
(* The constraint system: public inputs, auxiliary variables, constraints *)

(* a public input: its namespace, the parent it belongs to (-1: none), which part  *)
(* of the sub-circuit's output it is, its number among the packed elements, and    *)
(* its assignment (a field value, or the bits a packed element packs)              *)
OneInput == [ns |-> "ONE", idx |-> -1, part |-> "one", n |-> 0, val |-> 1, bits |-> <<>>]

EmptyCS == [inputs |-> <<OneInput>>, aux |-> 0, constraints |-> <<>>]

(* what an allocation closure yields on a cs of kind md *)
Eval(md, v) == IF md = Witness THEN v ELSE NoVal

AllocAux(c, k) == [c EXCEPT !.aux = @ + k]
AllocInput(c, e) == [c EXCEPT !.inputs = Append(@, e)]
Enforce(c, ns, idx, a, b, cc) ==
    [c EXCEPT !.constraints = Append(@, [ns |-> ns, idx |-> idx, a |-> a, b |-> b, c |-> cc])]

ConstraintHolds(k) ==
    /\ k.a # NoVal /\ k.b # NoVal /\ k.c # NoVal
    /\ (k.a * k.b) % FieldP = k.c

is_satisfied(c) == \A j \in 1..Len(c.constraints) : ConstraintHolds(c.constraints[j])

(* the outcome of a sub-call: Ok or the error it raised, the cs it leaves, its value *)
Ret(r, c, o) == [err |-> r, cs |-> c, out |-> o]

-----------------------------------------------------------------------------
(* util::bytes_into_boolean_vec: the identity as 8 * size allocated bits,   *)
(* little endian; with no bytes the bits are allocated without values,      *)
(* which a cs that evaluates assignments refuses.                           *)

bytes_into_boolean_vec(c, md, value, size) ==
    IF md = Witness /\ ~value.some
    THEN Ret(AssignmentMissing, c, <<>>)
    ELSE Ret(Ok, AllocAux(c, 8 * size),
             [j \in 1..(8 * size) |->
                 AllocatedBit(IF value.some THEN BytesBit(value.bytes, j - 1) ELSE NoVal)])

(* multipack::pack_into_inputs: one public input per chunk of Fr::CAPACITY  *)
(* bits, in order; a packed element is represented by the bits it packs.    *)

NumChunks(len) == CeilDiv(len, FrCapacity)

Chunk(bits, k) == SubSeq(bits, k * FrCapacity + 1, Min((k + 1) * FrCapacity, Len(bits)))

PackedEntry(md, ns, idx, k, chunk) ==
    [ns |-> ns, idx |-> idx, part |-> "packed", n |-> k, val |-> NoVal,
     bits |-> IF md = Witness THEN [j \in 1..Len(chunk) |-> chunk[j].v] ELSE <<>>]

RECURSIVE PackFrom(_, _, _, _, _, _)
PackFrom(c, md, ns, idx, bits, k) ==
    IF k >= NumChunks(Len(bits)) THEN Ret(Ok, c, <<>>)
    ELSE IF md = Witness /\ ~HasValues(Chunk(bits, k))
         THEN Ret(AssignmentMissing, c, <<>>)
         ELSE PackFrom(AllocInput(c, PackedEntry(md, ns, idx, k, Chunk(bits, k))),
                       md, ns, idx, bits, k + 1)

pack_into_inputs(c, md, ns, idx, bits) == PackFrom(c, md, ns, idx, bits, 0)

-----------------------------------------------------------------------------
(* circuit::por::proof_of_retrievability *)

LeafHash(v) == (2 * v + 3) % FieldP
Hash(l, r) == (3 * l + 5 * r + 1) % FieldP

(* the running value after hashing the leaf up the first k path elements *)
RECURSIVE HashUp(_, _, _)
HashUp(value, path, k) ==
    IF k = 0 THEN LeafHash(value)
    ELSE LET cur == HashUp(value, path, k - 1)
         IN IF path[k].right THEN Hash(path[k].val, cur) ELSE Hash(cur, path[k].val)

ComputeRoot(value, path) == HashUp(value, path, Len(path))

FirstNone(path) ==
    IF \E j \in 1..Len(path) : ~path[j].some
    THEN CHOOSE j \in 1..Len(path) :
            ~path[j].some /\ \A k \in 1..(j - 1) : path[k].some
    ELSE 0

ValueEntry(md, ns, idx, v) ==
    [ns |-> ns, idx |-> idx, part |-> "value", n |-> 0, val |-> Eval(md, v), bits |-> <<>>]
RootEntry(md, ns, idx, v) ==
    [ns |-> ns, idx |-> idx, part |-> "root", n |-> 0, val |-> Eval(md, v), bits |-> <<>>]

AuthPathBits(path) ==
    [j \in 1..Len(path) |->
        AllocatedBit(IF path[j].some THEN (IF path[j].right THEN 1 ELSE 0) ELSE NoVal)]

proof_of_retrievability(c, md, ns, idx, value, lambda, auth_path, root) ==
    IF md = Witness /\ value = NoVal THEN Ret(AssignmentMissing, c, <<>>)
    ELSE
    LET c1 == AllocInput(AllocAux(c, 1 + FrNumBits), ValueEntry(md, ns, idx, value))
        fn == FirstNone(auth_path)
    IN  IF md = Witness /\ fn # 0 THEN Ret(AssignmentMissing, AllocAux(c1, 2 * (fn - 1)), <<>>)
        ELSE
        LET c2 == AllocAux(c1, 2 * Len(auth_path))
            p  == pack_into_inputs(c2, md, ns, idx, AuthPathBits(auth_path))
        IN  IF p.err # Ok THEN p
            ELSE IF md = Witness /\ root = NoVal THEN Ret(AssignmentMissing, p.cs, <<>>)
            ELSE
            LET cur == IF md = Witness THEN ComputeRoot(value, auth_path) ELSE NoVal
                c3  == Enforce(AllocAux(p.cs, 1), ns, idx, cur, Eval(md, 1), Eval(md, root))
            IN  Ret(Ok, AllocInput(c3, RootEntry(md, ns, idx, root)), <<>>)

-----------------------------------------------------------------------------
(* boolean::field_into_boolean_vec_le and the padding of lines 122-125 *)

field_into_boolean_vec_le(c, md, v) ==
    IF md = Witness /\ v = NoVal THEN Ret(AssignmentMissing, c, <<>>)
    ELSE Ret(Ok, AllocAux(c, FrNumBits),
             [j \in 1..FrNumBits |-> AllocatedBit(IF v = NoVal THEN NoVal ELSE BitOf(v, j - 1))])

(* PadBits stopping one bit short *)
PadBits_Short(v) ==
    IF Len(v) < PadWidth - 1
    THEN v \o [j \in 1..(PadWidth - 1 - Len(v)) |-> ConstantFalse]
    ELSE v

PadBits(v) ==
    IF Len(v) < PadWidth
    THEN v \o [j \in 1..(PadWidth - Len(v)) |-> ConstantFalse]
    ELSE v

-----------------------------------------------------------------------------
(* circuit::kdf::kdf: a hash of the identity bits followed by the parents'  *)
(* bits in order; the degree m validates the number of parents.             *)

RECURSIVE ParentsSum(_, _)
ParentsSum(parents, k) ==
    IF k = 0 THEN 0
    ELSE (ParentsSum(parents, k - 1)
            + (k + 1) * BitsValue(parents[k], 1, Len(parents[k]))) % FieldP

KdfValue(id, parents) ==
    (1 + BitsValue(id, 1, Len(id)) + ParentsSum(parents, Len(parents))) % FieldP

kdf(c, md, id, parents, m) ==
    IF Len(parents) # m THEN Ret(PanicKdfLen, c, NoVal)
    ELSE IF md = Witness /\ ~(HasValues(id) /\ \A k \in 1..Len(parents) : HasValues(parents[k]))
         THEN Ret(AssignmentMissing, c, NoVal)
         ELSE Ret(Ok, AllocAux(c, 1), IF md = Witness THEN KdfValue(id, parents) ELSE NoVal)

-----------------------------------------------------------------------------
(* circuit::sloth::decode: `rounds` times c := c^5 - key *)

Pow5(x) == (x * x * x * x * x) % FieldP

RECURSIVE SlothDecode(_, _, _)
SlothDecode(k, c, rounds) ==
    IF rounds = 0 THEN c
    ELSE SlothDecode(k, (Pow5(c) - k + FieldP) % FieldP, rounds - 1)

sloth_decode(c, md, k, ciphertext, rounds) ==
    IF md = Witness /\ (ciphertext = NoVal \/ k = NoVal) THEN Ret(AssignmentMissing, c, NoVal)
    ELSE Ret(Ok, AllocAux(c, 1 + rounds),
             IF md = Witness THEN SlothDecode(k, ciphertext, rounds) ELSE NoVal)

(* num::AllocatedNum::alloc with the closure of line 149 *)
alloc_num(c, md, v) ==
    IF md = Witness /\ v = NoVal THEN Ret(AssignmentMissing, c, NoVal)
    ELSE Ret(Ok, AllocAux(c, 1), Eval(md, v))

-----------------------------------------------------------------------------
(* drgporep, statement group by statement group.  Each operator gives the   *)
(* outcome of one group on the cs it is handed; the actions below apply     *)
(* them in program order.                                                   *)

(* ValidateShapes without the assertion of line 65 *)
ValidateShapes_NoPathCheck(in) ==
    IF in.prover_id.some /\ Len(in.prover_id.bytes) # ProverIdLen THEN PanicIdLen
    ELSE Ok

(* ValidateShapes comparing the identity's length with lambda instead of 32 *)
ValidateShapes_IdVsLambda(in) ==
    IF Len(in.data_node_path) # Len(in.replica_node_path) THEN PanicPathLen
    ELSE IF in.prover_id.some /\ Len(in.prover_id.bytes) # in.lambda THEN PanicIdLen
    ELSE Ok

(* lines 65-68: the two assertions *)
ValidateShapes(in) ==
    IF Len(in.data_node_path) # Len(in.replica_node_path) THEN PanicPathLen
    ELSE IF in.prover_id.some /\ Len(in.prover_id.bytes) # ProverIdLen THEN PanicIdLen
    ELSE Ok

(* BitizeIdentity without the call of line 76 *)
BitizeIdentity_NoPack(c, md, in) == bytes_into_boolean_vec(c, md, in.prover_id, in.lambda)

(* lines 73-76: the identity as bits, packed into public inputs *)
BitizeIdentity(c, md, in) ==
    LET b == bytes_into_boolean_vec(c, md, in.prover_id, in.lambda)
    IN  IF b.err # Ok THEN b
        ELSE LET p == pack_into_inputs(b.cs, md, "prover_id", -1, b.out)
             IN  IF p.err # Ok THEN p ELSE Ret(Ok, p.cs, b.out)

(* lines 79-86 *)
ReplicaInclusion(c, md, in) ==
    proof_of_retrievability(c, md, "replica_node merkle proof", -1,
        in.replica_node, in.lambda, in.replica_node_path, in.replica_root)

(* ParentInclusion taking the parents' values in reverse order *)
ParentInclusion_Reversed(c, md, in, k) ==
    IF k >= Len(in.replica_parents_paths) THEN Ret(PanicIndex, c, <<>>)
    ELSE proof_of_retrievability(c, md, "replica parent", k,
            in.replica_parents[Len(in.replica_parents) - k], in.lambda,
            in.replica_parents_paths[k + 1], in.replica_root)

(* ParentInclusion checking the parents against the data root *)
ParentInclusion_DataRoot(c, md, in, k) ==
    IF k >= Len(in.replica_parents_paths) THEN Ret(PanicIndex, c, <<>>)
    ELSE proof_of_retrievability(c, md, "replica parent", k,
            in.replica_parents[k + 1], in.lambda, in.replica_parents_paths[k + 1],
            in.data_root)

(* lines 91-98, iteration k (from 0): indexing replica_parents_paths panics *)
(* when there is no path k                                                  *)
ParentInclusion(c, md, in, k) ==
    IF k >= Len(in.replica_parents_paths) THEN Ret(PanicIndex, c, <<>>)
    ELSE proof_of_retrievability(c, md, "replica parent", k,
            in.replica_parents[k + 1], in.lambda, in.replica_parents_paths[k + 1],
            in.replica_root)

(* lines 102-109 *)
DataInclusion(c, md, in) ==
    proof_of_retrievability(c, md, "data node commitment", -1,
        in.data_node, in.lambda, in.data_node_path, in.data_root)

(* lines 112-130: parents 1..k into padded bit vectors, first error wins *)
RECURSIVE ParentsToBits(_, _, _, _)
ParentsToBits(c, md, parents, k) ==
    IF k = 0 THEN Ret(Ok, c, <<>>)
    ELSE LET before == ParentsToBits(c, md, parents, k - 1)
         IN  IF before.err # Ok THEN before
             ELSE LET v == field_into_boolean_vec_le(before.cs, md, parents[k])
                  IN  IF v.err # Ok THEN v
                      ELSE Ret(Ok, v.cs, Append(before.out, PadBits(v.out)))

AssembleParentBits(c, md, in) ==
    ParentsToBits(c, md, in.replica_parents, Len(in.replica_parents))

(* lines 133-139 *)
DeriveKey(c, md, in, idbits, pbits) == kdf(c, md, idbits, pbits, in.m)

(* lines 141-146 *)
Decode(c, md, in, k) == sloth_decode(c, md, k, in.replica_node, DEFAULT_ROUNDS)

(* AllocExpected unwrapping data_node outside the allocation closure *)
AllocExpected_Eager(c, md, in) ==
    IF in.data_node = NoVal THEN Ret(AssignmentMissing, c, NoVal)
    ELSE Ret(Ok, AllocAux(c, 1), Eval(md, in.data_node))

(* lines 148-150 *)
AllocExpected(c, md, in) == alloc_num(c, md, in.data_node)

EqualityNs == "encrypted matches data_node constraint"

(* EnforceEquality with the decoded value on both sides *)
EnforceEquality_Self(c, md, exp, dec) == Enforce(c, EqualityNs, -1, dec, Eval(md, 1), dec)

(* lines 153-161: expected * 1 = decoded *)
EnforceEquality(c, md, exp, dec) == Enforce(c, EqualityNs, -1, exp, Eval(md, 1), dec)

(* NextStep with the data inclusion check ahead of the parents' *)
NextStep_DataFirst(step, k, n) ==
    CASE step = "validate"    -> "bitize"
      [] step = "bitize"      -> "replica_por"
      [] step = "replica_por" -> "data_por"
      [] step = "data_por"    -> IF n > 0 THEN "parent_por" ELSE "parent_bits"
      [] step = "parent_por"  -> IF k + 1 < n THEN "parent_por" ELSE "parent_bits"
      [] step = "parent_bits" -> "kdf"
      [] step = "kdf"         -> "decode"
      [] step = "decode"      -> "bind"
      [] step = "bind"        -> "done"

(* the order of the statement groups (lines 63-165) *)
NextStep(step, k, n) ==
    CASE step = "validate"    -> "bitize"
      [] step = "bitize"      -> "replica_por"
      [] step = "replica_por" -> IF n > 0 THEN "parent_por" ELSE "data_por"
      [] step = "parent_por"  -> IF k + 1 < n THEN "parent_por" ELSE "data_por"
      [] step = "data_por"    -> "parent_bits"
      [] step = "parent_bits" -> "kdf"
      [] step = "kdf"         -> "decode"
      [] step = "decode"      -> "bind"
      [] step = "bind"        -> "done"

(* what `?` does with the outcome of a sub-call: an error ends the call *)
Propagate(err) == err # Ok

-----------------------------------------------------------------------------
(* Actions *)

NumParents == Len(inp.replica_parents)

(* the trace records each statement group run and what it came to *)
Mark(step, k, err) == trace' = Append(trace, [step |-> step, idx |-> k, err |-> err])

Fail(err, c) == /\ result' = err
                /\ pc' = "done"
                /\ cs' = c

Advance(c) == /\ pc' = NextStep(pc, i, NumParents)
              /\ cs' = c
              /\ UNCHANGED result

Validate ==
    /\ pc = "validate"
    /\ LET r == ValidateShapes(inp)
       IN  /\ Mark("validate", -1, r)
           /\ IF r # Ok THEN Fail(r, cs) ELSE Advance(cs)
    /\ UNCHANGED <<inp, mode, i, prover_id_bits, parents_bits, key, decoded, expected, mutated>>

Bitize ==
    /\ pc = "bitize"
    /\ LET r == BitizeIdentity(cs, mode, inp)
       IN  /\ Mark("bitize", -1, r.err)
           /\ IF Propagate(r.err) THEN Fail(r.err, r.cs) /\ UNCHANGED prover_id_bits
              ELSE Advance(r.cs) /\ prover_id_bits' = r.out
    /\ UNCHANGED <<inp, mode, i, parents_bits, key, decoded, expected, mutated>>

ReplicaPor ==
    /\ pc = "replica_por"
    /\ LET r == ReplicaInclusion(cs, mode, inp)
       IN  /\ Mark("replica_por", -1, r.err)
           /\ IF Propagate(r.err) THEN Fail(r.err, r.cs) ELSE Advance(r.cs)
    /\ UNCHANGED <<inp, mode, i, prover_id_bits, parents_bits, key, decoded, expected, mutated>>

ParentPor ==
    /\ pc = "parent_por"
    /\ LET r == ParentInclusion(cs, mode, inp, i)
       IN  /\ Mark("parent_por", i, r.err)
           /\ IF Propagate(r.err) THEN Fail(r.err, r.cs) /\ UNCHANGED i
              ELSE Advance(r.cs) /\ i' = i + 1
    /\ UNCHANGED <<inp, mode, prover_id_bits, parents_bits, key, decoded, expected, mutated>>

DataPor ==
    /\ pc = "data_por"
    /\ LET r == DataInclusion(cs, mode, inp)
       IN  /\ Mark("data_por", -1, r.err)
           /\ IF Propagate(r.err) THEN Fail(r.err, r.cs) ELSE Advance(r.cs)
    /\ UNCHANGED <<inp, mode, i, prover_id_bits, parents_bits, key, decoded, expected, mutated>>

ParentBits ==
    /\ pc = "parent_bits"
    /\ LET r == AssembleParentBits(cs, mode, inp)
       IN  /\ Mark("parent_bits", -1, r.err)
           /\ IF Propagate(r.err) THEN Fail(r.err, r.cs) /\ UNCHANGED parents_bits
              ELSE Advance(r.cs) /\ parents_bits' = r.out
    /\ UNCHANGED <<inp, mode, i, prover_id_bits, key, decoded, expected, mutated>>

Kdf ==
    /\ pc = "kdf"
    /\ LET r == DeriveKey(cs, mode, inp, prover_id_bits, parents_bits)
       IN  /\ Mark("kdf", -1, r.err)
           /\ IF Propagate(r.err) THEN Fail(r.err, r.cs) /\ UNCHANGED key
              ELSE Advance(r.cs) /\ key' = r.out
    /\ UNCHANGED <<inp, mode, i, prover_id_bits, parents_bits, decoded, expected, mutated>>

SlothDecodeStep ==
    /\ pc = "decode"
    /\ LET r == Decode(cs, mode, inp, key)
       IN  /\ Mark("decode", -1, r.err)
           /\ IF Propagate(r.err) THEN Fail(r.err, r.cs) /\ UNCHANGED decoded
              ELSE Advance(r.cs) /\ decoded' = r.out
    /\ UNCHANGED <<inp, mode, i, prover_id_bits, parents_bits, key, expected, mutated>>

Bind ==
    /\ pc = "bind"
    /\ LET r == AllocExpected(cs, mode, inp)
       IN  /\ Mark("bind", -1, r.err)
           /\ IF Propagate(r.err) THEN Fail(r.err, r.cs) /\ UNCHANGED expected
              ELSE /\ expected' = r.out
                   /\ cs' = EnforceEquality(r.cs, mode, r.out, decoded)
                   /\ pc' = NextStep(pc, i, NumParents)
                   /\ result' = Ok
    /\ UNCHANGED <<inp, mode, i, prover_id_bits, parents_bits, key, decoded, mutated>>

Next ==
    \/ Validate
    \/ Bitize
    \/ ReplicaPor
    \/ ParentPor
    \/ DataPor
    \/ ParentBits
    \/ Kdf
    \/ SlothDecodeStep
    \/ Bind

-----------------------------------------------------------------------------
(* The arguments the calls are made with.  Witnesses are produced the way   *)
(* the test produces them (replicate, prove): a replica leaf, its parents   *)
(* and the data leaf that decodes from them, each with a Merkle path to     *)
(* its root; the families below then vary shapes and values around that.    *)

IdBytes(len, fill) == [j \in 1..len |-> (fill + 37 * j) % 256]

NonePath(d) == [j \in 1..d |-> NoneElem]
BasePath(d) == [j \in 1..d |-> SomeElem((2 * j + 1) % FieldP, j % 2 = 1)]
PathEndingIn(d, s) == [j \in 1..d |-> IF j = d THEN SomeElem(s, FALSE) ELSE BasePath(d)[j]]

(* a path of length d from leaf v to root, when there is one of this form *)
ValidPath(v, root, d) ==
    IF d > 0 /\ v # NoVal /\ root # NoVal
    THEN PathEndingIn(d, CHOOSE s \in Fr : ComputeRoot(v, PathEndingIn(d, s)) = root)
    ELSE BasePath(d)

RefIdBits(id, l) == bytes_into_boolean_vec(EmptyCS, Witness, id, l).out
RefParentBits(pvals) ==
    [k \in 1..Len(pvals) |-> PadBits(field_into_boolean_vec_le(EmptyCS, Witness, pvals[k]).out)]
RefKey(id, l, pvals) == KdfValue(RefIdBits(id, l), RefParentBits(pvals))
RefData(id, l, pvals, replica) == SlothDecode(RefKey(id, l, pvals), replica, DEFAULT_ROUNDS)

AllPresent(pvals) == \A k \in 1..Len(pvals) : pvals[k] # NoVal

ParentVals == {NoVal, 2, 5}
ReplicaVals == {NoVal, 3, 6}
Id32 == SomeBytes(IdBytes(ProverIdLen, 1))
IdChoices == {NoneBytes, Id32, SomeBytes(IdBytes(16, 1))}

(* shapes varied, values either all honest or all absent *)
ShapeInput(l, id, dR, dD, pd, n, np, m, present) ==
    LET replica == IF present THEN 3 ELSE NoVal
        pvals   == [k \in 1..n |-> IF present THEN (2 * k + 1) % FieldP ELSE NoVal]
        rpath   == IF present THEN BasePath(dR) ELSE NonePath(dR)
        root    == IF present THEN ComputeRoot(replica, rpath) ELSE NoVal
        data    == IF present THEN (IF id.some THEN RefData(id, l, pvals, replica) ELSE 0)
                   ELSE NoVal
        dpath   == IF present THEN BasePath(dD) ELSE NonePath(dD)
    IN  [lambda |-> l,
         replica_node |-> replica,
         replica_node_path |-> rpath,
         replica_root |-> root,
         replica_parents |-> pvals,
         replica_parents_paths |->
            [k \in 1..np |-> IF ~present THEN NonePath(pd)
                             ELSE IF k <= n THEN ValidPath(pvals[k], root, pd)
                             ELSE BasePath(pd)],
         data_node |-> data,
         data_node_path |-> dpath,
         data_root |-> IF present THEN ComputeRoot(data, dpath) ELSE NoVal,
         prover_id |-> id,
         m |-> m]

ValueKinds(d) == {<<d, TRUE>>} \cup {<<pd, FALSE>> : pd \in 0..MaxDepth}

(* the path lengths and the identity varied, one parent *)
LengthFamily ==
    { [in |-> ShapeInput(l, id, dR, dD, dR, 1, 1, 1, present), md |-> md] :
        l \in Lambdas, id \in IdChoices, dR \in 0..MaxDepth, dD \in 0..MaxDepth,
        present \in BOOLEAN, md \in Modes }

(* the numbers of parents and of parent paths and the degree varied, in a tree *)
(* of depth 1                                                                  *)
ParentFamily ==
    { [in |-> ShapeInput(l, id, 1, 1, sh[1], n, np, m, sh[2]), md |-> md] :
        l \in Lambdas, id \in {NoneBytes, Id32}, sh \in ValueKinds(1),
        n \in 0..MaxParents, np \in 0..MaxParents, m \in 0..MaxParents,
        md \in Modes }

ShapeFamily == LengthFamily \cup ParentFamily

(* shapes well formed, values varied: the honest witnesses, or one deviation *)
Deviations == {"honest", "replica root wrong", "replica root none", "data root wrong",
               "parent paths wrong", "data leaf wrong", "data leaf none"}

WitnessInput(d, pvals, replica, dev) ==
    LET rpath == BasePath(d)
        good  == IF replica = NoVal THEN 0 ELSE ComputeRoot(replica, rpath)
        root  == CASE dev = "replica root wrong" -> (good + 1) % FieldP
                   [] dev = "replica root none"  -> NoVal
                   [] OTHER                      -> good
        honest == IF replica # NoVal /\ AllPresent(pvals)
                  THEN RefData(Id32, TestLambda, pvals, replica) ELSE 0
        data  == CASE dev = "data leaf wrong" -> (honest + 1) % FieldP
                   [] dev = "data leaf none"  -> NoVal
                   [] OTHER                   -> honest
        dgood == IF data = NoVal THEN 0 ELSE ComputeRoot(data, rpath)
    IN  [lambda |-> TestLambda,
         replica_node |-> replica,
         replica_node_path |-> rpath,
         replica_root |-> root,
         replica_parents |-> pvals,
         replica_parents_paths |->
            [k \in 1..Len(pvals) |->
                IF dev = "parent paths wrong" THEN PathEndingIn(d, 0)
                ELSE ValidPath(pvals[k], good, d)],
         data_node |-> data,
         data_node_path |-> rpath,
         data_root |-> IF dev = "data root wrong" THEN (dgood + 1) % FieldP ELSE dgood,
         prover_id |-> Id32,
         m |-> Len(pvals)]

ParentTuples == UNION { [1..n -> ParentVals] : n \in 0..MaxParents }

WitnessFamily ==
    { [in |-> WitnessInput(d, pv, r, dev), md |-> Witness] :
        d \in 0..MaxDepth, pv \in ParentTuples, r \in ReplicaVals, dev \in Deviations }

(* the configuration of the test: lambda 32, degree 6, a tree of 12 leaves *)
TestFamily ==
    { [in |-> ShapeInput(TestLambda, Id32, TestDepth, TestDepth, TestDepth,
                         TestParents, TestParents, TestParents, f[1]),
       md |-> f[2]] :
        f \in {<<TRUE, Witness>>, <<TRUE, ShapeOnly>>, <<FALSE, ShapeOnly>>} } \cup
    { [in |-> [ShapeInput(TestLambda, NoneBytes, TestDepth, TestDepth, TestDepth,
                          TestParents, TestParents, TestParents, FALSE)
                 EXCEPT !.prover_id = NoneBytes],
       md |-> ShapeOnly] }

Start(f) ==
    /\ inp = f.in
    /\ mode = f.md
    /\ cs = EmptyCS
    /\ pc = "validate"
    /\ i = 0
    /\ result = "running"
    /\ prover_id_bits = <<>>
    /\ parents_bits = <<>>
    /\ key = NoVal
    /\ decoded = NoVal
    /\ expected = NoVal
    /\ trace = <<>>
    /\ mutated = FALSE

Init == \E f \in ShapeFamily \cup WitnessFamily \cup TestFamily : Start(f)

InitWitness == \E f \in WitnessFamily : Start(f)

Spec == Init /\ [][Next]_vars

(* the mutation test of the replica leaf: after a call that left a satisfied *)
(* system, the same call again with only the replica leaf value changed      *)
MutateReplicaLeaf ==
    /\ pc = "done" /\ result = Ok /\ mode = Witness /\ ~mutated
    /\ is_satisfied(cs)
    /\ \E v \in Fr \ {inp.replica_node} : inp' = [inp EXCEPT !.replica_node = v]
    /\ mutated' = TRUE
    /\ cs' = EmptyCS
    /\ pc' = "validate"
    /\ i' = 0
    /\ result' = "running"
    /\ prover_id_bits' = <<>>
    /\ parents_bits' = <<>>
    /\ key' = NoVal
    /\ decoded' = NoVal
    /\ expected' = NoVal
    /\ trace' = <<>>
    /\ UNCHANGED mode

NextMutation == Next \/ MutateReplicaLeaf

SpecMutation == InitWitness /\ [][NextMutation]_vars

-----------------------------------------------------------------------------
(* Properties *)

(* the statement group `step` has run and did not fail *)
Completed(step) ==
    \E j \in 1..Len(trace) :
        /\ trace[j].step = step
        /\ (j < Len(trace) \/ result \in {"running", Ok})

Finished == pc = "done"

PathLengthsDiffer == Len(inp.data_node_path) # Len(inp.replica_node_path)

(* the preconditions on the shapes of the arguments *)
ShapePreconditions ==
    /\ ~PathLengthsDiffer
    /\ inp.prover_id.some => Len(inp.prover_id.bytes) = ProverIdLen
    /\ Len(inp.replica_parents) = Len(inp.replica_parents_paths)
    /\ Len(inp.replica_parents) = inp.m

(* C1: whenever the data path and the replica path differ in length, the call *)
(* panics in its first statement, and the constraint system is then as it was *)
(* handed in: no variable, no public input, no constraint added.              *)
C1_PathLengthMismatchFailsFirst ==
    (PathLengthsDiffer /\ pc # "validate") =>
        /\ result = PanicPathLen
        /\ Finished
        /\ cs = EmptyCS
        /\ Len(trace) = 1

C1_Witness ==
    /\ PathLengthsDiffer
    /\ result = PanicPathLen
    /\ Len(inp.replica_parents) > 0

(* C2: whenever the number of parent values differs from the number of parent *)
(* paths, the call panics like it does for the path lengths: it does not get  *)
(* past the validation, and nothing has been assembled when it fails.         *)
C2_ParentCountMismatchFailsFirst ==
    (Len(inp.replica_parents) # Len(inp.replica_parents_paths) /\ pc # "validate") =>
        /\ result \in Panics
        /\ Finished
        /\ cs = EmptyCS

(* C3, as claimed: with an identity, the call fails on the identity's length  *)
(* exactly when that length differs from lambda.                              *)
C3_IdentityCheckTiedToLambda ==
    (~PathLengthsDiffer /\ pc # "validate") =>
        (result = PanicIdLen <=>
            (inp.prover_id.some /\ Len(inp.prover_id.bytes) # inp.lambda))

(* C3, amended: with equal path lengths, the call fails on the identity's     *)
(* length exactly when an identity is present and its length is not 32,       *)
(* whatever lambda is; without an identity the check never fires; and once    *)
(* the identity is bitized there are 8 * lambda identity bits.                *)
C3_IdentityCheckAgainst32 ==
    /\ (~PathLengthsDiffer /\ pc # "validate") =>
        (result = PanicIdLen <=>
            (inp.prover_id.some /\ Len(inp.prover_id.bytes) # ProverIdLen))
    /\ ~inp.prover_id.some => result # PanicIdLen
    /\ Completed("bitize") => Len(prover_id_bits) = 8 * inp.lambda

C3_Witness ==
    /\ inp.prover_id.some
    /\ Len(inp.prover_id.bytes) = ProverIdLen
    /\ inp.lambda # ProverIdLen
    /\ Completed("bitize")

-----------------------------------------------------------------------------
(* the public inputs a call is expected to leave *)

DirectionBit(e) == IF e.right THEN 1 ELSE 0

ExpectedPacked(ns, idx, len, BitAt(_)) ==
    [k \in 1..NumChunks(len) |->
        [ns |-> ns, idx |-> idx, part |-> "packed", n |-> k - 1, val |-> NoVal,
         bits |-> IF mode = Witness
                  THEN [j \in 1..Min(FrCapacity, len - (k - 1) * FrCapacity) |->
                            BitAt((k - 1) * FrCapacity + j)]
                  ELSE <<>>]]

ExpectedIdentity ==
    LET BitAt(j) == BytesBit(inp.prover_id.bytes, j - 1)
    IN  ExpectedPacked("prover_id", -1, 8 * inp.lambda, BitAt)

ExpectedNum(ns, idx, part, v) ==
    [ns |-> ns, idx |-> idx, part |-> part, n |-> 0,
     val |-> IF mode = Witness THEN v ELSE NoVal, bits |-> <<>>]

ExpectedLeaf(ns, idx, value, path) ==
    LET BitAt(j) == DirectionBit(path[j])
    IN  <<ExpectedNum(ns, idx, "value", value)>> \o ExpectedPacked(ns, idx, Len(path), BitAt)

ExpectedRoot(ns, idx, root) == <<ExpectedNum(ns, idx, "root", root)>>

RECURSIVE ExpectedParents(_, _)
ExpectedParents(k, withRoot) ==
    IF k = 0 THEN <<>>
    ELSE ExpectedParents(k - 1, withRoot)
            \o ExpectedLeaf("replica parent", k - 1, inp.replica_parents[k],
                            inp.replica_parents_paths[k])
            \o (IF withRoot THEN ExpectedRoot("replica parent", k - 1, inp.replica_root)
                ELSE <<>>)

ExpectedLayout(withParentRoots) ==
    <<OneInput>>
        \o ExpectedIdentity
        \o ExpectedLeaf("replica_node merkle proof", -1, inp.replica_node, inp.replica_node_path)
        \o ExpectedRoot("replica_node merkle proof", -1, inp.replica_root)
        \o ExpectedParents(Len(inp.replica_parents), withParentRoots)
        \o ExpectedLeaf("data node commitment", -1, inp.data_node, inp.data_node_path)
        \o ExpectedRoot("data node commitment", -1, inp.data_root)

(* C4, as claimed: after a successful call the public inputs are the constant *)
(* ONE, the packed identity, the replica leaf, path bits and root, each       *)
(* parent's leaf and path bits without a root, then the data leaf, path bits  *)
(* and root.                                                                  *)
C4_LayoutWithoutParentRoots ==
    result = Ok => cs.inputs = ExpectedLayout(FALSE)

(* C4, amended: after a successful call the public inputs are the constant    *)
(* ONE, the packed identity, the replica leaf, path bits and root, for each   *)
(* parent in input order its leaf, its path bits and the replica root again,  *)
(* then the data leaf, path bits and root; and every step of a call only      *)
(* appends to the public inputs.                                              *)
C4_LayoutWithParentRoots ==
    /\ [](result = Ok => cs.inputs = ExpectedLayout(TRUE))
    /\ [][IsPrefix(cs.inputs, cs.inputs')]_vars

C4_Witness ==
    /\ result = Ok
    /\ mode = Witness
    /\ Len(inp.replica_parents) = 2
    /\ inp.replica_parents[1] # inp.replica_parents[2]

-----------------------------------------------------------------------------
(* the number of public inputs for leaf size l, m parents and paths of length d *)
InputCount(l, m, d) == 1 + NumChunks(8 * l) + (2 + m) * (2 + NumChunks(d))

UniformDepth(d) ==
    /\ Len(inp.replica_node_path) = d
    /\ Len(inp.data_node_path) = d
    /\ \A k \in 1..Len(inp.replica_parents) : Len(inp.replica_parents_paths[k]) = d

TestShape ==
    /\ inp.lambda = TestLambda
    /\ inp.m = TestParents
    /\ UniformDepth(TestDepth)

(* C5: after a successful call the number of public inputs is a function of   *)
(* lambda, the number of parents and the depth of the tree alone, whatever    *)
(* the witness values and whether they are present; for lambda 32, 6 parents  *)
(* and depth 4 it is 27, the first being the constant ONE and the second the  *)
(* first packed identity element.                                             *)
C5_InputCount ==
    result = Ok =>
        /\ \A d \in 0..(MaxDepth + TestDepth) :
              UniformDepth(d) => Len(cs.inputs) = InputCount(inp.lambda, inp.m, d)
        /\ TestShape =>
              /\ Len(cs.inputs) = 27
              /\ cs.inputs[1] = OneInput
              /\ cs.inputs[2].ns = "prover_id" /\ cs.inputs[2].n = 0

C5_Witness ==
    /\ result = Ok
    /\ TestShape
    /\ mode = ShapeOnly
    /\ inp.data_node = NoVal
    /\ Len(cs.inputs) = 27

-----------------------------------------------------------------------------
(* valid witnesses, as the scheme outside the circuit produces them *)

PathPresent(path) == \A j \in 1..Len(path) : path[j].some

ValidLeaf(v, path, root) ==
    /\ v # NoVal /\ root # NoVal /\ PathPresent(path)
    /\ ComputeRoot(v, path) = root

ValidTuple ==
    /\ ValidLeaf(inp.replica_node, inp.replica_node_path, inp.replica_root)
    /\ Len(inp.replica_parents_paths) = Len(inp.replica_parents)
    /\ \A k \in 1..Len(inp.replica_parents) :
          ValidLeaf(inp.replica_parents[k], inp.replica_parents_paths[k], inp.replica_root)
    /\ ValidLeaf(inp.data_node, inp.data_node_path, inp.data_root)
    /\ Len(inp.replica_parents) = inp.m
    /\ inp.prover_id.some
    /\ inp.data_node = RefData(inp.prover_id, inp.lambda, inp.replica_parents, inp.replica_node)

(* C7, as claimed: a call with valid paths for the replica leaf, every parent *)
(* and the data leaf, as many parents as the degree, and a data leaf that is  *)
(* the replica leaf decoded under the derived key, succeeds and leaves a      *)
(* satisfied constraint system.                                               *)
C7_Completeness ==
    (mode = Witness /\ ValidTuple /\ Finished) =>
        (result = Ok /\ is_satisfied(cs))

(* C7, amended: the same, for calls whose identity is 32 bytes long and whose *)
(* data path and replica path have the same length.                           *)
C7_CompletenessWellFormed ==
    (mode = Witness /\ ValidTuple /\ ShapePreconditions /\ Finished) =>
        (result = Ok /\ is_satisfied(cs))

C7_Witness ==
    /\ mode = Witness
    /\ ValidTuple
    /\ ShapePreconditions
    /\ Len(inp.replica_parents) = 2
    /\ Len(inp.replica_node_path) > 0
    /\ result = Ok
    /\ is_satisfied(cs)

-----------------------------------------------------------------------------
EqualityConstraints ==
    { j \in 1..Len(cs.constraints) : cs.constraints[j].ns = EqualityNs }

-----------------------------------------------------------------------------
(* the statement groups of a call with n parents, in program order *)
Canonical(n) ==
    <<"validate", "bitize", "replica_por">>
        \o [k \in 1..n |-> "parent_por"]
        \o <<"data_por", "parent_bits", "kdf", "decode", "bind">>

CanonicalIdx(n) == <<-1, -1, -1>> \o [k \in 1..n |-> k - 1] \o <<-1, -1, -1, -1, -1>>

(* C9: a call runs its statement groups in the fixed order (validate, bitize, *)
(* replica inclusion, the parents' inclusions in order 0..n-1, data           *)
(* inclusion, parent bits, key derivation, decode, bind), each once; it       *)
(* returns Ok only after all of them, the equality constraint being the last  *)
(* one added; and it otherwise ends with the error of the first group that    *)
(* failed, which is the last group it ran.                                    *)
C9_FixedOrderFirstError ==
    LET n == Len(inp.replica_parents)
        t == Len(trace)
    IN  /\ t <= Len(Canonical(n))
        /\ \A j \in 1..t :
              /\ trace[j].step = Canonical(n)[j]
              /\ trace[j].idx = CanonicalIdx(n)[j]
              /\ j < t => trace[j].err = Ok
        /\ result = "running" => (~Finished /\ \A j \in 1..t : trace[j].err = Ok)
        /\ result = Ok =>
              /\ Finished
              /\ t = Len(Canonical(n))
              /\ trace[t].err = Ok
              /\ cs.constraints # <<>>
              /\ cs.constraints[Len(cs.constraints)].ns = EqualityNs
        /\ result \notin {"running", Ok} =>
              /\ Finished
              /\ t > 0
              /\ trace[t].err = result
        /\ result # Ok => EqualityConstraints = {}

C9_Witness ==
    /\ result = AssignmentMissing
    /\ Len(inp.replica_parents) = 2
    /\ Len(trace) = 5
    /\ trace[5].step = "parent_por"

(* C10: once the parents are turned into bits, key derivation is handed one   *)
(* vector per parent, in the parents' order, each exactly 256 wide: the       *)
(* Fr::NUM_BITS allocated bits of the parent's value, little endian (without  *)
(* values when the parent is absent), then constant-false bits only; whatever *)
(* lambda is.                                                                 *)
C10_ParentBitsPadded ==
    Completed("parent_bits") =>
        /\ Len(parents_bits) = Len(inp.replica_parents)
        /\ \A k \in 1..Len(parents_bits) :
              LET v == parents_bits[k]
                  p == inp.replica_parents[k]
              IN  /\ Len(v) = 256
                  /\ \A j \in 1..FrNumBits :
                        /\ ~v[j].const
                        /\ (p = NoVal) <=> (v[j].v = NoVal)
                  /\ \A j \in (FrNumBits + 1)..Len(v) : v[j] = ConstantFalse
                  /\ p # NoVal => BitsValue(v, 1, Len(v)) = p

C10_Witness ==
    /\ Completed("parent_bits")
    /\ Len(inp.replica_parents) = 2
    /\ inp.replica_parents[1] = NoVal
    /\ inp.lambda = 16
    /\ Len(parents_bits) = 2

====
